---- MODULE Spec2Model ----
(***************************************************************************)
(* A model of rational_intonation_tools: the octave normalisation and the  *)
(* tuning graph of scale_builder.py, and the interval classifier and       *)
(* colour generation of ratios.py.                                         *)
(*                                                                         *)
(* A fractions.Fraction is a pair <<numerator, denominator>> in lowest     *)
(* terms with a positive denominator.  A Python                            *)
(* value whose type the code branches on is a record [type, v]: type is    *)
(* "Fraction", "float" or "tuple" and v the pair.  A float is carried as   *)
(* the rational it approximates (every float produced here is a Fraction   *)
(* scaled by a power of two); a tuple keeps its two integers as given.     *)
(***************************************************************************)
EXTENDS Integers, Sequences, FiniteSets, TLC

VARIABLES
    recipe,   \* TuningSystem.recipe: pitch class -> sequence of <<edge, target>>
    scale,    \* TuningSystem.scale: the SortedSet, as its sorted sequence of pitches
    last,     \* what the most recent tune_interval call was given and how it ended
    pc,       \* position of the driver of a pure function: "start", "called", "again"
    arg,      \* the input handed to the pure function being driven
    ret       \* what the pure function returned

vars == <<recipe, scale, last, pc, arg, ret>>

-----------------------------------------------------------------------------
(* Bounds of the model. *)

\* numerators and denominators of the ratios handed to normalize
MaxNum == 8
\* the tuning graph stops growing at this many pitch classes
MaxPitches == 3
\* longest interval list handed to classify_intervals
MaxIntervals == 3
\* longest pitch list handed to print_cross_intervals
MaxScaleLen == 3
\* largest delegate count handed to generate_rich_colors
MaxDelegates == 6

-----------------------------------------------------------------------------
(* fractions.Fraction *)

Abs(x) == IF x < 0 THEN -x ELSE x

RECURSIVE GCD(_, _)
GCD(a, b) == IF b = 0 THEN a ELSE GCD(b, a % b)

\* Fraction(n, d): lowest terms, the sign carried by the numerator
Fraction(n, d) ==
    LET g == GCD(Abs(n), Abs(d))
        s == IF d < 0 THEN -1 ELSE 1
    IN  <<(s * n) \div g, (s * d) \div g>>

FracMul(a, b) == Fraction(a[1] * b[1], a[2] * b[2])
FracDiv(a, b) == Fraction(a[1] * b[2], a[2] * b[1])
FracAdd(a, b) == Fraction(a[1] * b[2] + b[1] * a[2], a[2] * b[2])
FracSub(a, b) == Fraction(a[1] * b[2] - b[1] * a[2], a[2] * b[2])
FracLt(a, b) == a[1] * b[2] < b[1] * a[2]

One == Fraction(1, 1)

RECURSIVE FloorLog2Nat(_, _)
\* the largest e >= 0 with d * 2^e <= n, for n >= d > 0
FloorLog2Nat(n, d) == IF 2 * d <= n THEN 1 + FloorLog2Nat(n, 2 * d) ELSE 0

RECURSIVE CeilLog2Nat(_, _)
\* the smallest e >= 0 with n <= d * 2^e, for n, d > 0
CeilLog2Nat(n, d) == IF n <= d THEN 0 ELSE 1 + CeilLog2Nat(n, 2 * d)

\* floor(log2(f)) and ceil(log2(f)) of a positive ratio f
FloorLog2(f) ==
    IF f[1] >= f[2] THEN FloorLog2Nat(f[1], f[2]) ELSE -CeilLog2Nat(f[2], f[1])
CeilLog2(f) ==
    IF f[1] > f[2] THEN CeilLog2Nat(f[1], f[2]) ELSE -FloorLog2Nat(f[2], f[1])

(* Octave equivalence and the octave [1, 2), as the properties state them. *)

\* r = s * 2^k for some integer k
RECURSIVE StripTwos(_)
StripTwos(n) == IF n % 2 = 0 THEN StripTwos(n \div 2) ELSE n
IsPowerOfTwo(n) == n > 0 /\ StripTwos(n) = 1
OctaveEquivalent(r, s) ==
    LET q == FracDiv(r, s) IN IsPowerOfTwo(q[1]) /\ IsPowerOfTwo(q[2])

InOctave(f) == ~FracLt(f, One) /\ FracLt(f, Fraction(2, 1))

-----------------------------------------------------------------------------
(* scale_builder.py: normalize *)

PyFraction(f) == [type |-> "Fraction", v |-> f]
PyTuple(n, d) == [type |-> "tuple", v |-> <<n, d>>]

\* 2 ** k is an int for k >= 0 and a float for k < 0, and a Fraction times or
\* over a float is a float
normalize(x) ==
    LET f == x.v IN
    IF FracLt(f, One)
    THEN LET k == CeilLog2(f) + 1 IN
         IF k >= 0
         THEN [type |-> x.type, v |-> FracMul(f, Fraction(2 ^ k, 1))]
         ELSE [type |-> "float", v |-> FracMul(f, Fraction(1, 2 ^ (-k)))]
    ELSE IF FracLt(Fraction(2, 1), f)
    THEN [type |-> x.type, v |-> FracDiv(f, Fraction(2 ^ FloorLog2(f), 1))]
    ELSE x

-----------------------------------------------------------------------------
(* scale_builder.py: to_fraction, TuningEdge, PitchCents *)

\* to_fraction raises for anything that is neither a tuple nor a Fraction
to_fraction_raises(x) == x.type \notin {"tuple", "Fraction"}

\* a tuple loses its signs, a Fraction is returned as it is
to_fraction(x) ==
    IF x.type = "tuple" THEN Fraction(Abs(x.v[1]), Abs(x.v[2])) ELSE x.v

TuningEdge(interval, direction) ==
    [interval |-> to_fraction(interval), direction |-> direction]

get_target_pitch_class(edge, starting_pitch_class) ==
    LET starting_fraction == to_fraction(starting_pitch_class) IN
    IF edge.direction = "UP"
    THEN normalize(PyFraction(FracMul(starting_fraction, edge.interval)))
    ELSE normalize(PyFraction(FracDiv(starting_fraction, edge.interval)))

\* PitchCents.__init__ converts its pitch with to_fraction, which raises for
\* a float.  The cents are a function of the pitch, shown and never compared,
\* so a PitchCents is carried as its pitch.
PitchCents_raises(pitch) == to_fraction_raises(pitch)
PitchCents(pitch) == to_fraction(pitch)

\* PitchCents.__lt__
PitchCentsLt(a, b) == FracLt(a, b)

-----------------------------------------------------------------------------
(* SortedSet of PitchCents, as its sorted sequence.  PitchCents defines no  *)
(* __eq__ or __hash__, so every new object is a new member of the set.      *)

SortedSetAddAtEnd(s, x) == Append(s, x)

\* SortedSet.add: after every member that is not greater than the value
SortedSetAdd(s, x) ==
    LET below == Cardinality({i \in 1..Len(s) : ~PitchCentsLt(x, s[i])})
    IN  SubSeq(s, 1, below) \o <<x>> \o SubSeq(s, below + 1, Len(s))

\* SortedSet.index of a member just added (0-based)
SortedSetIndex(s, x) == (CHOOSE i \in 1..Len(s) : s[i] = x) - 1

\* SortedSet.islice(start, stop), 0-based and half-open
SortedSetIslice(s, start, stop) == SubSeq(s, start + 1, stop)

Max(a, b) == IF a > b THEN a ELSE b
Min(a, b) == IF a < b THEN a ELSE b

-----------------------------------------------------------------------------
(* TuningSystem *)

NoCall ==
    [start |-> PyFraction(One), interval |-> PyFraction(One), direction |-> "UP",
     check_neighbors |-> FALSE, answer |-> "unasked", outcome |-> "none",
     pitch_tuned |-> PyFraction(One), report |-> <<>>]

\* TuningSystem.__init__
TuningSystemInit ==
    /\ recipe = (One :> <<>>)
    /\ scale = <<PitchCents(PyFraction(One))>>
    /\ last = NoCall

\* start not in self.recipe
MissingBasePitchNever(start, rcp) == FALSE
MissingBasePitch(start, rcp) == start \notin DOMAIN rcp

\* pitch_tuned in self.recipe
AlreadyPresentNever(pitch_tuned, rcp) == FALSE
AlreadyPresent(pitch_tuned, rcp) == pitch_tuned \in DOMAIN rcp

\* accept_extension != "y"
DeclinedUnlessEmpty(accept_extension) == accept_extension \notin {"y", ""}
Declined(accept_extension) == accept_extension # "y"

\* the pitch with its neighbours, as the prompt shows them
tuned_with_neighbors(extended_scale, with_cents) ==
    LET tuned_index == SortedSetIndex(extended_scale, with_cents) IN
    SortedSetIslice(extended_scale,
                    Max(tuned_index - 1, 0),
                    Min(tuned_index + 2, Len(extended_scale)))

\* self.recipe[start].append(...); self.recipe[pitch_tuned] = []
Committed(rcp, start, edge_tuned, pitch_tuned) ==
    [k \in DOMAIN rcp \cup {pitch_tuned} |->
        IF k = pitch_tuned THEN <<>>
        ELSE IF k = start THEN Append(rcp[k], <<edge_tuned, pitch_tuned>>)
        ELSE rcp[k]]

\* the ratios a caller passes: Fractions, and tuples of two integers
IntervalInputs ==
    {PyFraction(Fraction(3, 2)), PyFraction(Fraction(4, 3)), PyTuple(-1, 4)}
StartInputs ==
    {PyFraction(k) : k \in DOMAIN recipe}
        \cup {PyTuple(5, 4), PyTuple(-6, 4)}
\* what input() may return
Answers == {"y", "", "Y"}

tune_interval(start_in, interval_in, direction, check_neighbors, answer) ==
    LET start == to_fraction(start_in)
        interval == to_fraction(interval_in)
        call == [start |-> start_in, interval |-> interval_in,
                 direction |-> direction, check_neighbors |-> check_neighbors,
                 answer |-> "unasked", outcome |-> "none",
                 pitch_tuned |-> PyFraction(One), report |-> <<>>]
    IN
    IF MissingBasePitch(start, recipe)
    THEN /\ last' = [call EXCEPT !.outcome = "raised: base pitch absent"]
         /\ UNCHANGED <<recipe, scale>>
    ELSE
    LET edge_tuned == TuningEdge(PyFraction(interval), direction)
        pitch_tuned == get_target_pitch_class(edge_tuned, PyFraction(start))
        tuned == [call EXCEPT !.pitch_tuned = pitch_tuned]
    IN
    IF PitchCents_raises(pitch_tuned)
    THEN /\ last' = [tuned EXCEPT !.outcome = "raised: unexpected type"]
         /\ UNCHANGED <<recipe, scale>>
    ELSE
    LET with_cents == PitchCents(pitch_tuned) IN
    IF AlreadyPresent(pitch_tuned.v, recipe)
    THEN /\ last' = [tuned EXCEPT !.outcome = "skipped"]
         /\ UNCHANGED <<recipe, scale>>
    ELSE
    LET extended_scale == SortedSetAdd(scale, with_cents)
        asked == [tuned EXCEPT
                    !.answer = answer,
                    !.report = tuned_with_neighbors(extended_scale, with_cents)]
    IN
    IF check_neighbors /\ Declined(answer)
    THEN /\ last' = [asked EXCEPT !.outcome = "declined"]
         /\ UNCHANGED <<recipe, scale>>
    ELSE /\ recipe' = Committed(recipe, start, edge_tuned, pitch_tuned.v)
         /\ scale' = extended_scale
         /\ last' = [(IF check_neighbors THEN asked ELSE tuned)
                        EXCEPT !.outcome = "committed"]

Idle == pc = "idle" /\ arg = <<>> /\ ret = <<>>

Init == TuningSystemInit /\ Idle

Next ==
    /\ \E start \in StartInputs, interval \in IntervalInputs,
          direction \in {"UP", "DOWN"}, check_neighbors \in BOOLEAN :
         \* input() is only called when check_neighbors is set
         \E answer \in (IF check_neighbors THEN Answers ELSE {"unasked"}) :
            tune_interval(start, interval, direction, check_neighbors, answer)
    \* the graph of the model stops growing at MaxPitches pitch classes
    /\ Cardinality(DOMAIN recipe') <= MaxPitches
    /\ UNCHANGED <<pc, arg, ret>>

Spec == Init /\ [][Next]_vars

Keys == DOMAIN recipe
ScaleSet == {scale[i] : i \in 1..Len(scale)}

\* C3: after any sequence of tune_interval calls the pitches of scale are
\* strictly increasing (so free of duplicates), they are exactly the keys of
\* recipe, and the fundamental 1/1 is among them.
C3_ScaleMirrorsRecipe ==
    /\ \A i \in 1..(Len(scale) - 1) : PitchCentsLt(scale[i], scale[i + 1])
    /\ ScaleSet = Keys
    /\ One \in Keys

\* several pitches were accepted, one of them sorted below the fundamental,
\* and calls were refused on the way
C3_Witness ==
    /\ Len(scale) >= 3
    /\ scale[1] # One
    /\ last.outcome = "declined"

\* C2: from a fresh TuningSystem, tune_interval(1/1, 3/2, UP) yields the keys
\* {1/1, 3/2}; a following tune_interval(3/2, 4/3, UP) computes the target
\* normalize(2/1) = 1/1, which exists, so it is skipped and recipe keeps
\* exactly the keys {1/1, 3/2}.
ThreeHalves == Fraction(3, 2)
AfterFirstFifth ==
    recipe = (One :> <<<<TuningEdge(PyFraction(ThreeHalves), "UP"), ThreeHalves>>>>
              @@ ThreeHalves :> <<>>)
C2_SecondArrivalSkipped ==
    [][/\ (/\ recipe = (One :> <<>>)
           /\ to_fraction(last'.start) = One
           /\ to_fraction(last'.interval) = ThreeHalves
           /\ last'.direction = "UP"
           /\ ~last'.check_neighbors)
          => AfterFirstFifth'
       /\ (/\ AfterFirstFifth
           /\ to_fraction(last'.start) = ThreeHalves
           /\ to_fraction(last'.interval) = Fraction(4, 3)
           /\ last'.direction = "UP")
          => /\ last'.pitch_tuned = PyFraction(One)
             /\ last'.outcome = "skipped"
             /\ DOMAIN recipe' = {One, ThreeHalves}]_vars

\* C4: a tune_interval call with check_neighbors set whose confirmation input
\* is anything but "y" leaves recipe (keys and edge lists) and scale as they
\* were; only the input "y" commits the new edge and the new pitch.
C4_DeclineLeavesGraph ==
    [][last'.check_neighbors =>
        /\ last'.answer # "y" => (recipe' = recipe /\ scale' = scale)
        /\ last'.answer = "y" =>
            /\ last'.outcome = "committed"
            /\ last'.pitch_tuned.v \in DOMAIN recipe' \ DOMAIN recipe
            /\ <<TuningEdge(last'.interval, last'.direction), last'.pitch_tuned.v>>
                 = recipe'[to_fraction(last'.start)]
                          [Len(recipe'[to_fraction(last'.start)])]
            /\ scale' # scale
        /\ last'.outcome = "committed" => last'.answer = "y"]_vars

\* an empty confirmation input was given for a new pitch, after one was accepted
C4_Witness ==
    /\ last.check_neighbors
    /\ last.answer = ""
    /\ last.outcome = "declined"
    /\ Len(last.report) = 3
    /\ Len(scale) = 2

\* C5: tune_interval with a start that, converted to a Fraction, is no key of
\* recipe fails with an error and leaves recipe and scale unchanged; e.g.
\* tune_interval(5/4, 3/2, UP) on a graph holding only 1/1 fails.
C5_MissingBaseRaises ==
    [][to_fraction(last'.start) \notin DOMAIN recipe =>
        /\ last'.outcome = "raised: base pitch absent"
        /\ recipe' = recipe
        /\ scale' = scale]_vars

\* tune_interval((5,4), 3/2, UP) was called on the graph holding only 1/1
C5_Witness ==
    /\ last.start = PyTuple(5, 4)
    /\ last.interval = PyFraction(ThreeHalves)
    /\ last.direction = "UP"
    /\ last.outcome = "raised: base pitch absent"
    /\ DOMAIN recipe = {One}

\* every stored (edge, target) pair, by where it is stored
StoredPairs == {<<s, i>> : s \in Keys, i \in 1..MaxPitches} \cap
               {p \in Keys \X (1..MaxPitches) : p[2] <= Len(recipe[p[1]])}
Incoming(k) == {p \in StoredPairs : recipe[p[1]][p[2]][2] = k}

\* C9: the recipe is a tree rooted at 1/1: every other key is the stored
\* target of exactly one (edge, target) pair, 1/1 of none, every stored
\* target is a key, and every pair (edge, t) of recipe[s] has
\* t = edge.get_target_pitch_class(s).
C9_RecipeIsTree ==
    /\ \A k \in Keys \ {One} : Cardinality(Incoming(k)) = 1
    /\ Incoming(One) = {}
    /\ \A p \in StoredPairs :
        LET edge == recipe[p[1]][p[2]][1]
            t == recipe[p[1]][p[2]][2]
        IN  /\ t \in Keys
            /\ PyFraction(t) = get_target_pitch_class(edge, PyFraction(p[1]))

\* a chain of two edges from the fundamental, and a second arrival at an
\* existing pitch was just skipped
C9_Witness ==
    /\ \E k \in Keys \ {One} : Len(recipe[k]) = 1
    /\ last.outcome = "skipped"

-----------------------------------------------------------------------------
(* ratios.py: get_prime_limit, classify_intervals *)

\* an Optional value: None is the empty set, a value v is {v}
None == {}
Some(v) == {v}
\* Python's (o or d) for an Optional o whose values are all truthy
Or(o, d) == IF o = None THEN d ELSE CHOOSE v \in o : TRUE

RECURSIVE MaxPrimeFactor(_, _, _)
\* max(factorint(n).keys()) by trial division from p, for n > 1
MaxPrimeFactor(n, p, best) ==
    IF n = 1 THEN best
    ELSE IF n % p = 0 THEN MaxPrimeFactor(n \div p, p, p)
    ELSE MaxPrimeFactor(n, p + 1, best)

RECURSIVE MinPrimeFactor(_, _)
MinPrimeFactor(n, p) == IF n % p = 0 THEN p ELSE MinPrimeFactor(n, p + 1)

get_prime_limit_min(ratio) ==
    LET n == ratio[1] * ratio[2] IN
    IF n = 1 THEN None ELSE Some(MinPrimeFactor(n, 2))

get_prime_limit(ratio) ==
    LET n == ratio[1] * ratio[2] IN
    IF n = 1 THEN None ELSE Some(MaxPrimeFactor(n, 2, 2))

\* A dict is the sequence of its items in insertion order.  dict[key].add(x)
\* on a defaultdict(set): the item of key gains x, a new key is appended.
DictAdd(d, key, x) ==
    IF \E j \in 1..Len(d) : d[j].key = key
    THEN [j \in 1..Len(d) |->
            IF d[j].key = key THEN [d[j] EXCEPT !.members = @ \cup {x}] ELSE d[j]]
    ELSE Append(d, [key |-> key, members |-> {x}])

\* one pass of the loop over intervals: the first delegate the interval is
\* octave-equivalent to, or the interval itself
classify_one(equivalence_classes, interval) ==
    LET matching == {j \in 1..Len(equivalence_classes) :
                        Or(get_prime_limit(
                               FracDiv(interval, equivalence_classes[j].key)), 2) = 2}
        match == IF matching = {} THEN None
                 ELSE Some(equivalence_classes[
                        CHOOSE j \in matching : \A k \in matching : j <= k].key)
    IN  DictAdd(equivalence_classes, Or(match, interval), interval)

RECURSIVE classify_loop(_, _, _)
classify_loop(intervals, i, equivalence_classes) ==
    IF i > Len(intervals) THEN equivalence_classes
    ELSE classify_loop(intervals, i + 1,
                       classify_one(equivalence_classes, intervals[i]))

classify_intervals(intervals) == classify_loop(intervals, 1, <<>>)

-----------------------------------------------------------------------------
(* The driver of classify_intervals. *)

RECURSIVE SeqsUpTo(_, _)
\* the sequences over S of length at most n
SeqsUpTo(S, n) ==
    IF n = 0 THEN {<<>>}
    ELSE LET shorter == SeqsUpTo(S, n - 1)
         IN  shorter \cup {Append(q, x) : q \in shorter, x \in S}

IntervalPool ==
    {One, Fraction(2, 1), Fraction(3, 2), Fraction(3, 4), Fraction(5, 4),
     Fraction(1, 2)}

InitClassify ==
    /\ TuningSystemInit
    /\ pc = "start"
    /\ arg \in SeqsUpTo(IntervalPool, MaxIntervals)
    /\ ret = <<>>

CallClassify ==
    /\ pc = "start"
    /\ ret' = classify_intervals(arg)
    /\ pc' = "called"
    /\ UNCHANGED <<recipe, scale, last, arg>>

NextClassify == CallClassify

SpecClassify == InitClassify /\ [][NextClassify]_vars

Range(q) == {q[i] : i \in 1..Len(q)}
ClassesOf(x) == {j \in 1..Len(ret) : x \in ret[j].members}

\* C6: the classes classify_intervals returns partition the distinct input
\* values: every input interval is in exactly one class, and two inputs share
\* a class exactly when their quotient is a power of two; e.g.
\* [1/1, 2/1, 3/2] gives {1/1, 2/1} under 1/1 and {3/2} under 3/2.
C6_ClassesPartitionInput ==
    pc = "called" =>
        /\ \A x \in Range(arg) : Cardinality(ClassesOf(x)) = 1
        /\ \A j \in 1..Len(ret) :
            /\ ret[j].members \subseteq Range(arg)
            /\ ret[j].key \in ret[j].members
        /\ \A x, y \in Range(arg) :
            (ClassesOf(x) = ClassesOf(y)) <=> OctaveEquivalent(x, y)
        /\ arg = <<One, Fraction(2, 1), Fraction(3, 2)>> =>
            ret = <<[key |-> One, members |-> {One, Fraction(2, 1)}],
                    [key |-> Fraction(3, 2), members |-> {Fraction(3, 2)}]>>

\* three intervals fell into two classes, one of them joined by a later
\* octave-equivalent interval
C6_Witness ==
    /\ pc = "called"
    /\ Len(arg) = 3
    /\ Len(ret) = 2
    /\ arg[1] # arg[3]
    /\ ret[1].members = {arg[1], arg[3]}

-----------------------------------------------------------------------------
(* ratios.py: generate_rich_colors, LIMIT_COLORS, COLORS_TO_HUES *)

LIMIT_COLORS ==
    2 :> "dark_grey" @@ 3 :> "blue" @@ 5 :> "yellow" @@ 7 :> "green" @@
    11 :> "red" @@ 13 :> "cyan" @@ 17 :> "orange" @@ 19 :> "magenta"

\* the hues are decimal literals, carried as exact thousandths
COLORS_TO_HUES ==
    "dark_grey" :> None @@
    "red" :> Some(Fraction(0, 1000)) @@
    "orange" :> Some(Fraction(83, 1000)) @@
    "yellow" :> Some(Fraction(167, 1000)) @@
    "green" :> Some(Fraction(333, 1000)) @@
    "cyan" :> Some(Fraction(500, 1000)) @@
    "blue" :> Some(Fraction(667, 1000)) @@
    "magenta" :> Some(Fraction(833, 1000))

\* hue_range=0.2
DefaultHueRange == Fraction(2, 10)

Returned(value) == [raised |-> "", value |-> value]
Raised(error) == [raised |-> error, value |-> <<>>]

\* A colour is the (hue, lightness, saturation) handed to hls_to_rgb; the hex
\* string is a function of it.  The comprehension divides i by n - 1 for
\* every i in range(n).
generate_rich_colors(base_hue, n, hue_range) ==
    IF base_hue # None
    THEN IF \E i \in 0..(n - 1) : n - 1 = 0 THEN Raised("ZeroDivisionError")
         ELSE Returned(
            [k \in 1..n |->
                [h |-> FracAdd(Or(base_hue, One),
                               FracMul(FracSub(FracMul(Fraction(k - 1, n - 1),
                                                       Fraction(2, 1)),
                                               One),
                                       hue_range)),
                 l |-> Fraction(5, 10),
                 s |-> One]])
    ELSE Returned(
            [k \in 1..n |-> [h |-> Fraction(0, 1), l |-> Fraction(3, 10),
                             s |-> Fraction(0, 1)]])

-----------------------------------------------------------------------------
(* The driver of generate_rich_colors. *)

BaseHues == {COLORS_TO_HUES[c] : c \in DOMAIN COLORS_TO_HUES}
HueRanges == {DefaultHueRange, Fraction(5, 100)}

InitColors ==
    /\ TuningSystemInit
    /\ pc = "start"
    /\ arg \in [base_hue : BaseHues, n : 0..MaxDelegates, hue_range : HueRanges]
    /\ ret = <<>>

CallGenerateRichColors ==
    /\ pc = "start"
    /\ ret' = generate_rich_colors(arg.base_hue, arg.n, arg.hue_range)
    /\ pc' = "called"
    /\ UNCHANGED <<recipe, scale, last, arg>>

NextColors == CallGenerateRichColors

SpecColors == InitColors /\ [][NextColors]_vars

\* C8: for a group with a defined base hue, colour generation returns as many
\* colours as the group has delegates, their hues evenly spaced from
\* base_hue - hue_range to base_hue + hue_range; for a single delegate it
\* returns one colour whose hue is the base hue, and raises nothing.
C8_ColoursPerDelegate ==
    (pc = "called" /\ arg.base_hue # None) =>
        /\ ret.raised = ""
        /\ Len(ret.value) = arg.n
        /\ arg.n = 1 => ret.value[1].h = Or(arg.base_hue, One)
        /\ arg.n >= 2 =>
            /\ ret.value[1].h = FracSub(Or(arg.base_hue, One), arg.hue_range)
            /\ ret.value[arg.n].h = FracAdd(Or(arg.base_hue, One), arg.hue_range)
            /\ \A k \in 1..(arg.n - 1) :
                FracSub(ret.value[k + 1].h, ret.value[k].h)
                    = FracDiv(FracMul(Fraction(2, 1), arg.hue_range),
                              Fraction(arg.n - 1, 1))

-----------------------------------------------------------------------------
(* ratios.py: get_intervals, assign_colors, print_cross_intervals *)

\* rows that hold only the pitches from the row's pitch on
get_intervals_upper(pitch_ratios) ==
    [i \in 1..Len(pitch_ratios) |->
        [j \in 1..(Len(pitch_ratios) - i + 1) |->
            FracDiv(pitch_ratios[j + i - 1], pitch_ratios[i])]]

\* every row of the matrix holds every pitch over the row's pitch
get_intervals(pitch_ratios) ==
    [i \in 1..Len(pitch_ratios) |->
        [j \in 1..Len(pitch_ratios) |->
            FracDiv(pitch_ratios[j], pitch_ratios[i])]]

RECURSIVE Flatten(_, _)
\* [intv for series in interval_serieses for intv in series]
Flatten(serieses, i) ==
    IF i > Len(serieses) THEN <<>> ELSE serieses[i] \o Flatten(serieses, i + 1)

RECURSIVE group_delegates(_, _, _)
\* classified_delegates[(get_prime_limit(delegate) or 2)].add(delegate)
group_delegates(classified_intervals, j, classified_delegates) ==
    IF j > Len(classified_intervals) THEN classified_delegates
    ELSE group_delegates(classified_intervals, j + 1,
            DictAdd(classified_delegates,
                    Or(get_prime_limit(classified_intervals[j].key), 2),
                    classified_intervals[j].key))

RECURSIVE assign_colors_loop(_, _, _)
\* The loop over the prime-limit groups, up to the first one that raises.
\* What it yields is prime_colors of each group; which delegate of a group
\* takes which of them follows the iteration order of a set.
assign_colors_loop(classified_delegates, j, prime_colors) ==
    IF j > Len(classified_delegates) THEN Returned(prime_colors)
    ELSE
    LET prime_limit == classified_delegates[j].key
        delegate_count == Cardinality(classified_delegates[j].members)
    IN
    IF prime_limit \notin DOMAIN LIMIT_COLORS THEN Raised("KeyError")
    ELSE
    LET prime_hue == COLORS_TO_HUES[LIMIT_COLORS[prime_limit]]
        generated == generate_rich_colors(prime_hue, delegate_count, DefaultHueRange)
    IN
    IF generated.raised # "" THEN generated
    ELSE assign_colors_loop(classified_delegates, j + 1,
            Append(prime_colors, [key |-> prime_limit, colors |-> generated.value]))

assign_colors(classified_intervals, classified_delegates) ==
    assign_colors_loop(classified_delegates, 1, <<>>)

print_cross_intervals(pitch_ratios) ==
    LET interval_serieses == get_intervals(pitch_ratios)
        classified_intervals == classify_intervals(Flatten(interval_serieses, 1))
        classified_delegates == group_delegates(classified_intervals, 1, <<>>)
        color_assignments == assign_colors(classified_intervals, classified_delegates)
    IN  [raised |-> color_assignments.raised,
         interval_serieses |-> interval_serieses,
         classified_intervals |-> classified_intervals,
         classified_delegates |-> classified_delegates,
         prime_colors |-> color_assignments.value]

-----------------------------------------------------------------------------
(* The driver of print_cross_intervals. *)

PitchPool ==
    {One, Fraction(3, 2), Fraction(5, 4), Fraction(4, 3), Fraction(9, 8),
     Fraction(23, 16)}

InitCross ==
    /\ TuningSystemInit
    /\ pc = "start"
    /\ arg \in SeqsUpTo(PitchPool, MaxScaleLen) \ {<<>>}
    /\ ret = <<>>

CallPrintCrossIntervals ==
    /\ pc = "start"
    /\ ret' = print_cross_intervals(arg)
    /\ pc' = "called"
    /\ UNCHANGED <<recipe, scale, last, arg>>

NextCross == CallPrintCrossIntervals

SpecCross == InitCross /\ [][NextCross]_vars

\* C10: in print_cross_intervals, for every non-empty list of pitch classes,
\* every prime-limit group of delegates with a limit above 2 holds at least
\* two delegates (the class of an interval and the class of its reciprocal
\* are both there and differ), so generate_rich_colors never divides by zero.
C10_NoSingletonGroup ==
    pc = "called" =>
        /\ ret.raised # "ZeroDivisionError"
        /\ \A g \in 1..Len(ret.classified_delegates) :
            ret.classified_delegates[g].key > 2 =>
                Cardinality(ret.classified_delegates[g].members) >= 2
        /\ \A r \in Range(Flatten(ret.interval_serieses, 1)) :
            Or(get_prime_limit(r), 2) > 2 =>
                \E j, k \in 1..Len(ret.classified_intervals) :
                    /\ j # k
                    /\ r \in ret.classified_intervals[j].members
                    /\ FracDiv(One, r) \in ret.classified_intervals[k].members

\* a list of three pitches was rendered whose 3-limit group holds four
\* delegates, each given a colour
C10_Witness ==
    /\ pc = "called"
    /\ Len(arg) = 3
    /\ ret.raised = ""
    /\ \E g \in 1..Len(ret.classified_delegates) :
        /\ ret.classified_delegates[g].key = 3
        /\ Cardinality(ret.classified_delegates[g].members) = 4
        /\ \E c \in 1..Len(ret.prime_colors) :
            /\ ret.prime_colors[c].key = 3
            /\ Len(ret.prime_colors[c].colors) = 4

-----------------------------------------------------------------------------
(* The driver of normalize: normalize(r), then normalize of the result. *)

Ratios == {Fraction(n, d) : n \in 1..MaxNum, d \in 1..MaxNum}

InitNormalize ==
    /\ TuningSystemInit
    /\ pc = "start"
    /\ arg \in Ratios
    /\ ret = <<>>

CallNormalize ==
    /\ pc = "start"
    /\ ret' = <<normalize(PyFraction(arg))>>
    /\ pc' = "called"
    /\ UNCHANGED <<recipe, scale, last, arg>>

CallNormalizeAgain ==
    /\ pc = "called"
    /\ ret' = Append(ret, normalize(ret[1]))
    /\ pc' = "again"
    /\ UNCHANGED <<recipe, scale, last, arg>>

NextNormalize == CallNormalize \/ CallNormalizeAgain

SpecNormalize == InitNormalize /\ [][NextNormalize]_vars

\* C1: for every positive rational r, normalize(r) is an exact ratio with
\* 1 <= normalize(r) < 2 and normalize(r) = r * 2^k for an integer k; in
\* particular normalize(7/2) = 7/4 and normalize(1/3) = 4/3.
C1_NormalizeInOctave ==
    pc = "called" =>
        /\ ret[1].type = "Fraction"
        /\ InOctave(ret[1].v)
        /\ OctaveEquivalent(ret[1].v, arg)
        /\ (arg = Fraction(7, 2) => ret[1].v = Fraction(7, 4))
        /\ (arg = Fraction(1, 3) => ret[1].v = Fraction(4, 3))

\* C7: normalize is idempotent: normalize(normalize(r)) = normalize(r) for
\* every positive rational r.
C7_NormalizeIdempotent ==
    pc = "again" => ret[2] = ret[1]

====
